---- MODULE Spec2Model ----
(***************************************************************************)
(* JobSync: extraction and reconciliation pipeline.                        *)
(*                                                                         *)
(* Strings are sequences of one-character strings, so that substring       *)
(* tests (Notion's "contains" filter, the generic-sender test) and the     *)
(* string conversions of the parser are computed, not assumed.  The empty  *)
(* sequence stands for every falsy string value of JavaScript (null,       *)
(* undefined, "").                                                         *)
(***************************************************************************)
EXTENDS Integers, Sequences, FiniteSets, Bags, TLC

----------------------------------------------------------------------------
(* Bounds of the model *)

MaxJobs == 2
MaxBatch == 2
MaxCalls == 2
MaxSeqCalls == 3
MaxFaults == 1
MaxRetryCalls == 3
MaxRetryFaults == 2
MaxParseCalls == 2
MaxExtractCalls == 2
MaxBulk == 12
MaxProgressFaults == 1
MaxProgressCalls == 2
MaxShutdownCalls == 2

----------------------------------------------------------------------------
(* Program constants *)

Concurrency == 2
Attempts == 2
ConfidenceGate == 60

----------------------------------------------------------------------------
(* Strings *)

Empty == <<>>

UpperSeq == <<"A", "B", "C", "D", "E", "F", "G", "H", "I", "J", "K", "L", "M", "N", "O", "P", "Q", "R", "S", "T", "U", "V", "W", "X", "Y", "Z">>
LowerSeq == <<"a", "b", "c", "d", "e", "f", "g", "h", "i", "j", "k", "l", "m", "n", "o", "p", "q", "r", "s", "t", "u", "v", "w", "x", "y", "z">>

UpperChars == {UpperSeq[i] : i \in 1..26}
LowerChars == {LowerSeq[i] : i \in 1..26}
SpaceChars == {" ", "\t", "\n"}

toLowerCaseChar(c) ==
  IF c \in UpperChars THEN LowerSeq[CHOOSE i \in 1..26 : UpperSeq[i] = c] ELSE c

toUpperCaseChar(c) ==
  IF c \in LowerChars THEN UpperSeq[CHOOSE i \in 1..26 : LowerSeq[i] = c] ELSE c

toLowerCase(s) == [i \in 1..Len(s) |-> toLowerCaseChar(s[i])]

\* String.prototype.includes
includes(s, t) ==
  \E i \in 0..(Len(s) - Len(t)) : \A k \in 1..Len(t) : s[i + k] = t[k]

\* String.prototype.trim
trim(s) ==
  LET keep == {i \in 1..Len(s) : s[i] \notin SpaceChars}
  IN IF keep = {} THEN Empty
     ELSE SubSeq(s, CHOOSE i \in keep : \A j \in keep : i <= j,
                    CHOOSE i \in keep : \A j \in keep : i >= j)

\* word.charAt(0).toUpperCase() + word.slice(1)
capitalize(s) ==
  IF Len(s) = 0 THEN Empty ELSE <<toUpperCaseChar(s[1])>> \o Tail(s)

S_Unknown == <<"U", "n", "k", "n", "o", "w", "n">>
S_NotSpecified == <<"N", "o", "t", " ", "s", "p", "e", "c", "i", "f", "i", "e", "d">>
S_Applied == <<"A", "p", "p", "l", "i", "e", "d">>
S_Direct == <<"D", "i", "r", "e", "c", "t">>
S_Interview == <<"I", "n", "t", "e", "r", "v", "i", "e", "w">>
S_Offer == <<"O", "f", "f", "e", "r">>
S_Rejected == <<"R", "e", "j", "e", "c", "t", "e", "d">>
S_AcmeCorp == <<"A", "c", "m", "e", " ", "C", "o", "r", "p">>
S_Globex == <<"G", "l", "o", "b", "e", "x">>
S_Analyst == <<"A", "n", "a", "l", "y", "s", "t">>
S_LinkedIn == <<"L", "i", "n", "k", "e", "d", "I", "n">>
S_FromJobs == <<"A", "c", "m", "e", " ", "C", "o", "r", "p", " ", "<", "j", "o", "b", "s", "@", "a", "c", "m", "e", ".", "c", "o", "m", ">">>
S_FromNoreply == <<"A", "c", "m", "e", " ", "C", "o", "r", "p", " ", "<", "n", "o", "r", "e", "p", "l", "y", "@", "a", "c", "m", "e", ".", "c", "o", "m", ">">>
S_FromEbay == <<"e", "B", "a", "y", " ", "<", "j", "o", "b", "s", "@", "e", "b", "a", "y", ".", "c", "o", "m", ">">>
S_FromSupport == <<"S", "u", "p", "p", "o", "r", "t", " ", "<", "s", "u", "p", "p", "o", "r", "t", "@", "a", "c", "m", "e", "-", "c", "o", "r", "p", ".", "c", "o", "m", ">">>
S_FromBare == <<"j", "o", "b", "s", "@", "g", "l", "o", "b", "e", "x", ".", "c", "o", "m">>
S_Hello == <<"H", "e", "l", "l", "o">>
S_OnBehalf == <<"H", "e", "l", "l", "o", " ", "o", "n", " ", "b", "e", "h", "a", "l", "f", " ", "o", "f", " ", "I", "n", "i", "t", "e", "c", "h">>
S_Initech == <<"I", "n", "i", "t", "e", "c", "h">>
S_PendingReview == <<"P", "e", "n", "d", "i", "n", "g", " ", "r", "e", "v", "i", "e", "w">>
S_InterviewOffer == <<"I", "n", "t", "e", "r", "v", "i", "e", "w", " ", "o", "f", "f", "e", "r", " ", "l", "e", "t", "t", "e", "r">>
S_ReceivedUnfortunately == <<"U", "n", "f", "o", "r", "t", "u", "n", "a", "t", "e", "l", "y", " ", "a", "p", "p", "l", "i", "c", "a", "t", "i", "o", "n", " ", "r", "e", "c", "e", "i", "v", "e", "d">>
S_CongratsUnfortunately == <<"C", "o", "n", "g", "r", "a", "t", "u", "l", "a", "t", "i", "o", "n", "s", " ", "u", "n", "f", "o", "r", "t", "u", "n", "a", "t", "e", "l", "y">>
S_Unfortunately == <<"U", "n", "f", "o", "r", "t", "u", "n", "a", "t", "e", "l", "y">>
S_SentOn == <<"S", "e", "n", "t", " ", "3", " ", "J", "a", "n", " ", "2", "0", "2", "4">>
S_FromHr == <<"A", "c", "m", "e", " ", "C", "o", "r", "p", " ", "<", "h", "r", "@", "a", "c", "m", "e", ".", "c", "o", "m", ">">>

----------------------------------------------------------------------------
(* config/regexPattern.js *)

\* Object.entries order of the status keyword table
statusKeywords == <<"applied", "interview", "offer", "rejected">>

\* Object.entries order of the platform table (the duplicate key naukri
\* keeps its first position)
platforms == <<"linkedin", "indeed", "glassdoor", "naukri", "dice", "monster",
               "ziprecruiter", "angellist", "unstop">>

CategoryName(c) ==
  CASE c = "applied" -> <<"a", "p", "p", "l", "i", "e", "d">>
    [] c = "interview" -> <<"i", "n", "t", "e", "r", "v", "i", "e", "w">>
    [] c = "offer" -> <<"o", "f", "f", "e", "r">>
    [] c = "rejected" -> <<"r", "e", "j", "e", "c", "t", "e", "d">>

PlatformName(p) ==
  CASE p = "linkedin" -> <<"l", "i", "n", "k", "e", "d", "i", "n">>
    [] p = "indeed" -> <<"i", "n", "d", "e", "e", "d">>
    [] p = "glassdoor" -> <<"g", "l", "a", "s", "s", "d", "o", "o", "r">>
    [] p = "naukri" -> <<"n", "a", "u", "k", "r", "i">>
    [] p = "dice" -> <<"d", "i", "c", "e">>
    [] p = "monster" -> <<"m", "o", "n", "s", "t", "e", "r">>
    [] p = "ziprecruiter" -> <<"z", "i", "p", "r", "e", "c", "r", "u", "i", "t", "e", "r">>
    [] p = "angellist" -> <<"a", "n", "g", "e", "l", "l", "i", "s", "t">>
    [] p = "unstop" -> <<"u", "n", "s", "t", "o", "p">>

jobTitles == <<
  <<"S", "o", "f", "t", "w", "a", "r", "e", " ", "E", "n", "g", "i", "n", "e", "e", "r">>,
  <<"D", "e", "v", "e", "l", "o", "p", "e", "r">>,
  <<"F", "r", "o", "n", "t", "e", "n", "d", " ", "D", "e", "v", "e", "l", "o", "p", "e", "r">>,
  <<"B", "a", "c", "k", "e", "n", "d", " ", "D", "e", "v", "e", "l", "o", "p", "e", "r">>,
  <<"F", "u", "l", "l", " ", "S", "t", "a", "c", "k", " ", "D", "e", "v", "e", "l", "o", "p", "e", "r">>,
  <<"D", "a", "t", "a", " ", "S", "c", "i", "e", "n", "t", "i", "s", "t">>,
  <<"P", "r", "o", "d", "u", "c", "t", " ", "M", "a", "n", "a", "g", "e", "r">>,
  <<"D", "e", "s", "i", "g", "n", "e", "r">>,
  <<"D", "e", "v", "O", "p", "s", " ", "E", "n", "g", "i", "n", "e", "e", "r">>,
  <<"Q", "A", " ", "E", "n", "g", "i", "n", "e", "e", "r">>,
  <<"B", "u", "s", "i", "n", "e", "s", "s", " ", "A", "n", "a", "l", "y", "s", "t">>,
  <<"M", "a", "r", "k", "e", "t", "i", "n", "g", " ", "M", "a", "n", "a", "g", "e", "r">> >>

generic == <<
  <<"n", "o", "r", "e", "p", "l", "y">>, <<"n", "o", "-", "r", "e", "p", "l", "y">>,
  <<"d", "o", "n", "o", "t", "r", "e", "p", "l", "y">>, <<"a", "d", "m", "i", "n">>,
  <<"s", "u", "p", "p", "o", "r", "t">>, <<"i", "n", "f", "o">>,
  <<"n", "o", "t", "i", "f", "i", "c", "a", "t", "i", "o", "n">>, <<"a", "l", "e", "r", "t">>,
  <<"s", "y", "s", "t", "e", "m">>, <<"a", "u", "t", "o", "m", "a", "t", "e", "d">>,
  <<"b", "o", "t">> >>

Keywords(c) ==
  CASE c = "applied" -> <<
      <<"a", "p", "p", "l", "i", "c", "a", "t", "i", "o", "n", " ", "r", "e", "c", "e", "i", "v", "e", "d">>,
      <<"t", "h", "a", "n", "k", " ", "y", "o", "u", " ", "f", "o", "r", " ", "a", "p", "p", "l", "y", "i", "n", "g">>,
      <<"w", "e", " ", "h", "a", "v", "e", " ", "r", "e", "c", "e", "i", "v", "e", "d", " ", "y", "o", "u", "r", " ", "a", "p", "p", "l", "i", "c", "a", "t", "i", "o", "n">>,
      <<"a", "p", "p", "l", "i", "c", "a", "t", "i", "o", "n", " ", "c", "o", "n", "f", "i", "r", "m", "a", "t", "i", "o", "n">>,
      <<"s", "u", "c", "c", "e", "s", "s", "f", "u", "l", "l", "y", " ", "a", "p", "p", "l", "i", "e", "d">>,
      <<"a", "p", "p", "l", "i", "c", "a", "t", "i", "o", "n", " ", "s", "u", "b", "m", "i", "t", "t", "e", "d">> >>
    [] c = "interview" -> <<
      <<"i", "n", "t", "e", "r", "v", "i", "e", "w">>,
      <<"s", "c", "h", "e", "d", "u", "l", "e", " ", "a", " ", "c", "a", "l", "l">>,
      <<"p", "h", "o", "n", "e", " ", "s", "c", "r", "e", "e", "n">>,
      <<"t", "e", "c", "h", "n", "i", "c", "a", "l", " ", "r", "o", "u", "n", "d">>,
      <<"v", "i", "d", "e", "o", " ", "c", "a", "l", "l">>,
      <<"m", "e", "e", "t", " ", "w", "i", "t", "h">>,
      <<"a", "s", "s", "e", "s", "s", "m", "e", "n", "t">>,
      <<"c", "o", "d", "i", "n", "g", " ", "c", "h", "a", "l", "l", "e", "n", "g", "e">>,
      <<"n", "e", "x", "t", " ", "r", "o", "u", "n", "d">>,
      <<"b", "e", "e", "n", " ", "s", "h", "o", "r", "t", "l", "i", "s", "t", "e", "d">> >>
    [] c = "offer" -> <<
      <<"c", "o", "n", "g", "r", "a", "t", "u", "l", "a", "t", "i", "o", "n", "s">>,
      <<"p", "l", "e", "a", "s", "e", "d", " ", "t", "o", " ", "o", "f", "f", "e", "r">>,
      <<"j", "o", "b", " ", "o", "f", "f", "e", "r">>,
      <<"o", "f", "f", "e", "r", " ", "l", "e", "t", "t", "e", "r">>,
      <<"w", "e", "l", "c", "o", "m", "e", " ", "t", "o">>,
      <<"w", "e", " ", "w", "o", "u", "l", "d", " ", "l", "i", "k", "e", " ", "t", "o", " ", "o", "f", "f", "e", "r">>,
      <<"e", "x", "c", "i", "t", "e", "d", " ", "t", "o", " ", "o", "f", "f", "e", "r">> >>
    [] c = "rejected" -> <<
      <<"u", "n", "f", "o", "r", "t", "u", "n", "a", "t", "e", "l", "y">>,
      <<"n", "o", "t", " ", "s", "e", "l", "e", "c", "t", "e", "d">>,
      <<"o", "t", "h", "e", "r", " ", "c", "a", "n", "d", "i", "d", "a", "t", "e", "s">>,
      <<"d", "e", "c", "i", "d", "e", "d", " ", "t", "o", " ", "m", "o", "v", "e", " ", "f", "o", "r", "w", "a", "r", "d">>,
      <<"t", "h", "a", "n", "k", " ", "y", "o", "u", " ", "f", "o", "r", " ", "y", "o", "u", "r", " ", "i", "n", "t", "e", "r", "e", "s", "t", ",", " ", "b", "u", "t">>,
      <<"w", "e", " ", "h", "a", "v", "e", " ", "d", "e", "c", "i", "d", "e", "d">>,
      <<"n", "o", "t", " ", "p", "r", "o", "c", "e", "e", "d", "i", "n", "g">>,
      <<"p", "o", "s", "i", "t", "i", "o", "n", " ", "h", "a", "s", " ", "b", "e", "e", "n", " ", "f", "i", "l", "l", "e", "d">> >>

----------------------------------------------------------------------------
(* services/gmail.js *)

S_LinkPrefix == <<"h", "t", "t", "p", "s", ":", "/", "/", "m", "a", "i", "l", ".", "g", "o", "o", "g", "l", "e", ".", "c", "o", "m", "/", "m", "a", "i", "l", "/", "u", "/", "0", "/", "#", "i", "n", "b", "o", "x", "/">>

\* `https://mail.google.com/mail/u/0/#inbox/${messageId}`
GmailLink(messageId) == S_LinkPrefix \o messageId

----------------------------------------------------------------------------
(* services/parsing.js: the Pattern Extractor *)

Min(S) == CHOOSE x \in S : \A y \in S : x <= y

isGenericSender(name) ==
  \E g \in 1..Len(generic) : includes(toLowerCase(name), generic[g])

formatCompanyName(domain) ==
  [i \in 1..Len(domain) |->
     IF domain[i] \in {"-", "_"} THEN " "
     ELSE IF i = 1 \/ domain[i - 1] \in {"-", "_"} THEN toUpperCaseChar(domain[i])
     ELSE domain[i]]

NameClass == UpperChars \cup LowerChars \cup SpaceChars \cup {"&", ".", ",", "'", "-"}

\* last index of the longest run of characters of class cls that starts at i+1
RunEnd(s, i, cls) ==
  CHOOSE k \in i..Len(s) :
    /\ \A j \in (i + 1)..k : s[j] \in cls
    /\ (k = Len(s) \/ s[k + 1] \notin cls)

\* from.match(/([A-Z][a-zA-Z\s&.,'-]+)\s*</): capture 1, Empty without a match
DisplayNameMatch(from) ==
  LET starts == {i \in 1..Len(from) :
                   /\ from[i] \in UpperChars
                   /\ RunEnd(from, i, NameClass) > i
                   /\ RunEnd(from, i, NameClass) < Len(from)
                   /\ from[RunEnd(from, i, NameClass) + 1] = "<"}
  IN IF starts = {} THEN Empty
     ELSE SubSeq(from, Min(starts), RunEnd(from, Min(starts), NameClass))

\* from.match(/@([^.]+)/): capture 1, Empty without a match
DomainMatch(from) ==
  LET ats == {i \in 1..Len(from) :
                from[i] = "@" /\ i < Len(from) /\ from[i + 1] # "."}
      nondot == {from[j] : j \in 1..Len(from)} \ {"."}
  IN IF ats = {} THEN Empty
     ELSE SubSeq(from, Min(ats) + 1, RunEnd(from, Min(ats), nondot))

\* companyCaps: capture 1 of each of regexPatterns.companyPatterns on
\* `${subject} ${body}`, in list order (Empty: no match)
extractCompany(from, companyCaps) ==
  LET emailMatch == DisplayNameMatch(from)
      hits == {p \in 1..Len(companyCaps) :
                 companyCaps[p] # Empty /\ ~isGenericSender(companyCaps[p])}
      domainMatch == DomainMatch(from)
  IN IF emailMatch # Empty /\ ~isGenericSender(trim(emailMatch)) THEN trim(emailMatch)
     ELSE IF hits # {} THEN trim(companyCaps[Min(hits)])
     ELSE IF domainMatch # Empty THEN formatCompanyName(domainMatch)
     ELSE S_Unknown

\* roleCaps: capture 1 of each of regexPatterns.rolePatterns, in list order
extractRole(subject, body, roleCaps) ==
  LET text == subject \o <<" ">> \o body
      hits == {p \in 1..Len(roleCaps) : roleCaps[p] # Empty}
      titles == {t \in 1..Len(jobTitles) :
                   includes(toLowerCase(text), toLowerCase(jobTitles[t]))}
  IN IF hits # {} THEN trim(roleCaps[Min(hits)])
     ELSE IF titles # {} THEN jobTitles[Min(titles)]
     ELSE S_NotSpecified

\* pat occurs in text at position i
MatchAt(text, i, pat) ==
  /\ i + Len(pat) - 1 <= Len(text)
  /\ \A k \in 1..Len(pat) : text[i + k - 1] = pat[k]

\* /from.*name/ on one line of text
FromThen(text, name) ==
  \E i \in 1..Len(text) :
    /\ MatchAt(text, i, <<"f", "r", "o", "m">>)
    /\ \E j \in (i + 4)..Len(text) :
         /\ MatchAt(text, j, name)
         /\ \A k \in (i + 4)..(j - 1) : text[k] # "\n"

PlatformTest(p, text) ==
  IF p = "angellist"
  THEN \/ includes(text, <<"a", "n", "g", "e", "l", ".", "c", "o">>)
       \/ includes(text, <<"w", "e", "l", "l", "f", "o", "u", "n", "d", ".", "c", "o", "m">>)
       \/ FromThen(text, <<"a", "n", "g", "e", "l">>)
  ELSE \/ includes(text, PlatformName(p) \o <<".", "c", "o", "m">>)
       \/ FromThen(text, PlatformName(p))

\* faulty variant of extractPlatform: the default of the Notion properties
\* is returned whatever the text holds
extractPlatformNotSpecified(from, body, subject) ==
  <<"N", "o", "t", " ", "s", "p", "e", "c", "i", "f", "i", "e", "d">>

extractPlatform(from, body, subject) ==
  LET text == toLowerCase(from \o <<" ">> \o body \o <<" ">> \o subject)
      hits == {p \in 1..Len(platforms) : PlatformTest(platforms[p], text)}
  IN IF hits # {} THEN capitalize(PlatformName(platforms[Min(hits)]))
     ELSE S_Direct

\* faulty variant of extractStatus: the last category with a hit wins
extractStatusLast(subject, body) ==
  LET text == toLowerCase(subject \o <<" ">> \o body)
      hits == {c \in 1..Len(statusKeywords) :
                 \E k \in 1..Len(Keywords(statusKeywords[c])) :
                   includes(text, toLowerCase(Keywords(statusKeywords[c])[k]))}
  IN IF hits # {}
     THEN capitalize(CategoryName(statusKeywords[CHOOSE c \in hits : \A d \in hits : d <= c]))
     ELSE S_Applied

extractStatus(subject, body) ==
  LET text == toLowerCase(subject \o <<" ">> \o body)
      hits == {c \in 1..Len(statusKeywords) :
                 \E k \in 1..Len(Keywords(statusKeywords[c])) :
                   includes(text, toLowerCase(Keywords(statusKeywords[c])[k]))}
  IN IF hits # {} THEN capitalize(CategoryName(statusKeywords[Min(hits)]))
     ELSE S_Applied

\* new Date(): the current time, later than the date of every message
Now == 20

\* new Date(match[1]) of a date pattern: no match, an invalid date (NaN), or
\* a time
NoDate == 0
InvalidDate == -1

\* dateCaps: new Date(match[1]) for each of regexPatterns.datePatterns on the
\* body, in list order
extractApplicationDate(dateCaps, emailDate) ==
  LET hits == {p \in 1..Len(dateCaps) :
                 dateCaps[p] # NoDate /\ dateCaps[p] # InvalidDate /\ dateCaps[p] <= Now}
  IN IF hits # {} THEN dateCaps[Min(hits)] ELSE emailDate

\* JavaScript values of the fields the classifier may or may not set
JsUndefined == "undefined"
JsTrue == "true"
JsFalse == "false"
JsString == "string"
NoNumber == -1

extractWithRegex(emailData) ==
  [company |-> extractCompany(emailData.from, emailData.companyCaps),
   role |-> extractRole(emailData.subject, emailData.body, emailData.roleCaps),
   platform |-> extractPlatform(emailData.from, emailData.body, emailData.subject),
   status |-> extractStatus(emailData.subject, emailData.body),
   applicationDate |-> emailData.date,
   lastResponseDate |-> emailData.date,
   isJobRelated |-> JsUndefined,
   confidence |-> NoNumber,
   gmailLink |-> Empty]

----------------------------------------------------------------------------
(* Inputs: the messages of the mailbox and the classifier's responses *)

NoCaps == <<Empty, Empty, Empty, Empty>>

\* services/gmail.js parseEmailData: every header is a string ('' when the
\* header is missing) and gmailLink is built from the message id
RawMessage(messageId, from, subject, body, date) ==
  [id |-> messageId, from |-> from, subject |-> subject, body |-> body,
   date |-> date, gmailLink |-> GmailLink(messageId),
   companyCaps |-> NoCaps, roleCaps |-> NoCaps, dateCaps |-> <<NoDate, NoDate, NoDate>>]

Emails == <<
  RawMessage(<<"m", "1">>, S_FromJobs, <<"Q", "A", " ", "E", "n", "g", "i", "n", "e", "e", "r", " ", "i", "n", "t", "e", "r", "v", "i", "e", "w">>, Empty, 2),
  RawMessage(<<"m", "2">>, S_FromHr, <<"Q", "A", " ", "E", "n", "g", "i", "n", "e", "e", "r", " ", "u", "p", "d", "a", "t", "e">>, Empty, 3),
  RawMessage(<<"m", "3">>, Empty, Empty, Empty, 1),
  RawMessage(<<"m", "4">>, Empty, S_Hello, Empty, 4),
  RawMessage(<<"m", "5">>, S_FromNoreply, S_Hello, Empty, 5),
  RawMessage(<<"m", "6">>, S_FromEbay, S_Hello, Empty, 6),
  RawMessage(<<"m", "7">>, S_FromBare, S_Hello, Empty, 7),
  [RawMessage(<<"m", "8">>, S_FromSupport, S_OnBehalf, Empty, 8)
     EXCEPT !.companyCaps = <<Empty, S_Initech \o <<" ">>, Empty, Empty>>],
  RawMessage(<<"m", "9">>, S_FromSupport, S_Hello, Empty, 8),
  RawMessage(<<"m", "1", "0">>, Empty, S_InterviewOffer, Empty, 10),
  RawMessage(<<"m", "1", "1">>, Empty, S_ReceivedUnfortunately, Empty, 11),
  RawMessage(<<"m", "1", "2">>, Empty, S_CongratsUnfortunately, Empty, 12),
  RawMessage(<<"m", "1", "3">>, Empty, S_Unfortunately, Empty, 13),
  [RawMessage(<<"m", "1", "4">>, Empty, S_Hello, S_SentOn, 14)
     EXCEPT !.dateCaps = <<NoDate, 9, NoDate>>] >>

NEmails == Len(Emails)

\* the messages of the mailbox in the runs of the whole worker, the two
\* unrelated messages without company and role, and the messages whose
\* senders take the different paths of extractCompany
Inbox == {1, 2, 3}
DefaultsInbox == {3, 4}
RetryInbox == {1}
ParseInbox == {3, 5, 6, 7, 8, 9}
ExtractInbox == {3, 10, 11, 12, 13, 14}

FragmentKeys == {"isJobRelated", "company", "role", "status", "platform", "confidence"}

\* the JSON object of a response; keys lists the keys it has
Fragment(isJobRelated, confidence, company, role, status, platform) ==
  [keys |-> FragmentKeys, isJobRelated |-> isJobRelated, confidence |-> confidence,
   company |-> company, role |-> role, status |-> status, platform |-> platform,
   applicationDate |-> 0, lastResponseDate |-> 0, gmailLink |-> Empty]

NoFragment == Fragment(JsUndefined, NoNumber, Empty, Empty, Empty, Empty)

\* what model.generateContent does: throw, or answer a text that holds no
\* {...} span, a span that is not JSON, or a JSON object
Responses == <<
  [kind |-> "throw", json |-> "none", obj |-> NoFragment],
  [kind |-> "text", json |-> "none", obj |-> NoFragment],
  [kind |-> "text", json |-> "malformed", obj |-> NoFragment],
  [kind |-> "text", json |-> "object",
   obj |-> Fragment(JsTrue, 90, S_Globex, S_Analyst, S_Offer, S_LinkedIn)],
  [kind |-> "text", json |-> "object",
   obj |-> Fragment(JsTrue, 60, S_Globex, S_Analyst, S_Offer, S_LinkedIn)],
  [kind |-> "text", json |-> "object",
   obj |-> Fragment(JsTrue, 61, S_Globex, S_Analyst, S_Interview, S_LinkedIn)],
  [kind |-> "text", json |-> "object",
   obj |-> Fragment(JsFalse, 90, S_Globex, S_Analyst, S_Rejected, S_Direct)],
  [kind |-> "text", json |-> "object",
   obj |-> Fragment(JsString, 90, S_Globex, S_Analyst, S_Rejected, S_Direct)],
  [kind |-> "text", json |-> "object",
   obj |-> [Fragment(JsTrue, 90, S_Globex, S_Analyst, S_Offer, S_LinkedIn)
              EXCEPT !.keys = @ \cup {"gmailLink", "lastResponseDate"},
                     !.gmailLink = S_Hello, !.lastResponseDate = 9]],
  [kind |-> "text", json |-> "object",
   obj |-> Fragment(JsTrue, 90, S_Globex, S_Analyst, S_PendingReview, S_LinkedIn)],
  [kind |-> "text", json |-> "object",
   obj |-> Fragment(JsTrue, 90, S_Globex, S_Analyst, S_Offer, Empty)],
  [kind |-> "text", json |-> "object",
   obj |-> Fragment(JsTrue, 150, S_Globex, S_Analyst, S_Offer, S_LinkedIn)] >>

NResponses == Len(Responses)

\* the responses drawn in the runs of the whole worker (the cases of the
\* gate), and those drawn in the runs that examine the merged record
Replies == 1..8
ParseReplies == {2, 4, 9, 10, 11, 12}
ExtractReplies == {1, 2}

\* the responses drawn in the runs under fairness: the classifier throws,
\* accepts the message, or says it is not job-related
LiveReplies == {1, 4, 7}

----------------------------------------------------------------------------
(* services/parsing.js: the Classifier Adapter and the Coordinator *)

\* JavaScript truthiness of the isJobRelated value
Truthy(v) == v \in {JsTrue, JsString}

\* { ...base, ...over }: the keys of over replace those of base
Spread(base, over) ==
  [f \in DOMAIN base |-> IF f \in over.keys THEN over[f] ELSE base[f]]

\* the gate of enhanceWithGemini
GatePasses(parsed) ==
  Truthy(parsed.isJobRelated) /\ parsed.confidence > ConfidenceGate

\* faulty variant of the catch below: the error is thrown on
enhanceWithGeminiRethrow(regexResult, error) ==
  [result |-> "throw", value |-> regexResult, error |-> error]

\* catch (error) { console.error(...); return regexResult; }
enhanceWithGeminiCatch(regexResult, error) ==
  [result |-> "value", value |-> regexResult, error |-> "none"]

\* result: "null", "value" with the object returned, or "throw" with the error
enhanceWithGemini(emailData, regexResult, response) ==
  IF response.kind = "throw"
  THEN enhanceWithGeminiCatch(regexResult, "GeminiError")
  ELSE IF response.json = "malformed"
  THEN enhanceWithGeminiCatch(regexResult, "SyntaxError")
  ELSE IF response.json = "object" /\ GatePasses(response.obj)
  THEN [result |-> "value", value |-> Spread(regexResult, response.obj), error |-> "none"]
  ELSE [result |-> "null", value |-> regexResult, error |-> "none"]

\* catch (error) { console.error('Error parsing email:', error); throw error; }
parseEmailCatch(error) == error

\* parseEmail after extractWithRegex: the classifier is called and the two
\* results are merged
parseEmailMerge(emailData, regex, response) ==
  LET geminiResult == enhanceWithGemini(emailData, regex, response)
      merged == IF geminiResult.result = "null" THEN regex
                ELSE geminiResult.value
  IN IF geminiResult.result = "throw"
     THEN [result |-> "throw", value |-> regex, error |-> parseEmailCatch(geminiResult.error)]
     ELSE [result |-> "value", value |-> [merged EXCEPT !.gmailLink = emailData.gmailLink],
           error |-> "none"]

parseEmail(emailData, response) ==
  parseEmailMerge(emailData, extractWithRegex(emailData), response)

----------------------------------------------------------------------------
(* services/notion.js: the Reconciliation Engine *)

OrElse(v, d) == IF v = Empty THEN d ELSE v

\* faulty variant of buildNotionProperties: 'Application Date' is written
\* on update too
buildNotionPropertiesWithDate(data, isUpdate) ==
  [Company |-> IF data.company = <<>> THEN <<"U", "n", "k", "n", "o", "w", "n">> ELSE data.company,
   Role |-> IF data.role = <<>> THEN <<"N", "o", "t", " ", "s", "p", "e", "c", "i", "f", "i", "e", "d">> ELSE data.role,
   Status |-> IF data.status = <<>> THEN <<"A", "p", "p", "l", "i", "e", "d">> ELSE data.status,
   Platform |-> IF data.platform = <<>> THEN <<"N", "o", "t", " ", "s", "p", "e", "c", "i", "f", "i", "e", "d">> ELSE data.platform,
   LastResponseDate |-> data.lastResponseDate,
   GmailLink |-> data.gmailLink,
   ApplicationDate |-> data.applicationDate]

\* the properties written; 'Application Date' only on creation
buildNotionProperties(data, isUpdate) ==
  LET properties ==
        [Company |-> OrElse(data.company, S_Unknown),
         Role |-> OrElse(data.role, S_NotSpecified),
         Status |-> OrElse(data.status, S_Applied),
         Platform |-> OrElse(data.platform, S_NotSpecified),
         LastResponseDate |-> data.lastResponseDate,
         GmailLink |-> data.gmailLink]
  IN IF isUpdate THEN properties
     ELSE [f \in DOMAIN properties \cup {"ApplicationDate"} |->
             IF f = "ApplicationDate" THEN data.applicationDate ELSE properties[f]]

\* pages.create: a new page with the given properties
PagesCreate(pages, properties) == Append(pages, properties)

\* faulty variant of PagesUpdate: the later 'Last Response Date' is kept
PagesUpdateNewer(pages, pageId, properties) ==
  [pages EXCEPT ![pageId] =
     [f \in DOMAIN pages[pageId] |->
        IF f = "LastResponseDate" /\ pages[pageId][f] > properties[f] THEN pages[pageId][f]
        ELSE IF f \in DOMAIN properties THEN properties[f] ELSE pages[pageId][f]]]

\* pages.update: the given properties replace those of the page
PagesUpdate(pages, pageId, properties) ==
  [pages EXCEPT ![pageId] =
     [f \in DOMAIN pages[pageId] |->
        IF f \in DOMAIN properties THEN properties[f] ELSE pages[pageId][f]]]

\* databases.query, Company contains company and Role contains role
QueryCompanyRole(pages, company, role) ==
  {p \in 1..Len(pages) :
     /\ includes(toLowerCase(pages[p].Company), toLowerCase(company))
     /\ includes(toLowerCase(pages[p].Role), toLowerCase(role))}

\* databases.query, Gmail Link equals gmailLink
QueryGmailLink(pages, gmailLink) ==
  {p \in 1..Len(pages) : pages[p].GmailLink = gmailLink}

\* the errors a call of the Notion client can throw
StoreErrors == {"APIResponseError"}

\* catch (error) { console.error(...); throw error; }
createApplicationCatch(error) == error
updateApplicationCatch(error) == error
createOrUpdateApplicationCatch(error) == error
\* faulty variant of processEmailCatch: the error is replaced
processEmailWrap(error) == "ProcessingError"

processEmailCatch(error) == error
processJobCatch(error) == error

----------------------------------------------------------------------------
(* State *)

VARIABLES
  pages,        \* the Notion database: the sequence of its pages (index = page id)
  jobs,         \* the email-processing queue: the bag of its jobs that no slot holds
  pc,           \* where each concurrent job of the worker is suspended
  job,          \* the job each slot of the worker processes
  email,        \* emailData of the processEmail call in progress (index in Emails)
  text,         \* the classifier's response of that call (index in Responses)
  regexResult,  \* regexResult of the parseEmail of that call
  parsedData,   \* parsedData of that call
  existingApp,  \* existingApp of that call (0: null)
  sync,         \* locals of syncEmails
  call,         \* history: what the call in progress has done so far
  ver,          \* history: number of writes the database has accepted
  lastCall,     \* history: the createOrUpdateApplication call that finished last
  createdFor,   \* history: pages created while processing each email
  faults,       \* history: number of calls of the Notion client that failed
  ncalls,       \* history: number of processEmail calls started or due
  overlap,      \* history: two processEmail calls have been in progress together
  currentJob,   \* this.currentJob of the EmailProcessor (0: null, else the slot of the job)
  pfaults       \* number of updateProgress calls on a job that will still be rejected

locals == <<email, text, regexResult, parsedData, existingApp, call>>
store == <<pages, ver, lastCall, createdFor, faults>>
progress == <<currentJob, pfaults>>
vars == <<pages, jobs, pc, job, email, text, regexResult, parsedData, existingApp,
          sync, call, ver, lastCall, createdFor, faults, ncalls, overlap,
          currentJob, pfaults>>

Slots == 1..Concurrency

NoData ==
  [company |-> Empty, role |-> Empty, platform |-> Empty, status |-> Empty,
   applicationDate |-> 0, lastResponseDate |-> 0, isJobRelated |-> JsUndefined,
   confidence |-> NoNumber, gmailLink |-> Empty]

NoPage ==
  [Company |-> Empty, Role |-> Empty, Status |-> Empty, Platform |-> Empty,
   LastResponseDate |-> 0, GmailLink |-> Empty, ApplicationDate |-> 0]

NoSync ==
  [emails |-> <<>>, i |-> 0, processed |-> 0, skipped |-> 0, errors |-> 0,
   escaped |-> "none", items |-> <<>>]

NoResult ==
  [type |-> "none", notionPageId |-> 0, totalEmails |-> 0, processed |-> 0,
   skipped |-> 0, errors |-> 0]

NoJob ==
  [name |-> "none", data |-> 0, priority |-> 0, attemptsMade |-> 0, state |-> "none",
   failedReason |-> "none", result |-> NoResult, items |-> <<>>]

NoPrev == [kind |-> "none", data |-> NoData, page |-> 0, lookupFailed |-> FALSE,
           sequential |-> FALSE]

NoCall ==
  [veto |-> FALSE, lookupFailed |-> FALSE, qver |-> 0, lookups |-> 0, prev |-> NoPrev,
   primary |-> {}, linked |-> {}]

NoLast ==
  [kind |-> "none", data |-> NoData, page |-> 0, veto |-> FALSE, lookupFailed |-> FALSE,
   sequential |-> FALSE, job |-> NoJob, error |-> "none", storeError |-> "none",
   lookups |-> 0, pageBefore |-> NoPage, prev |-> NoPrev, primary |-> {}, linked |-> {}]

Summary(c) ==
  [kind |-> c.kind, data |-> c.data, page |-> c.page,
   lookupFailed |-> c.lookupFailed, sequential |-> c.sequential]

InCall(s) == pc[s] \in {"classify", "query", "linkQuery", "write"}

InitWorker ==
  /\ pages = <<>>
  /\ jobs = EmptyBag
  /\ pc = [s \in Slots |-> "idle"]
  /\ job = [s \in Slots |-> NoJob]
  /\ email = [s \in Slots |-> 0]
  /\ text = [s \in Slots |-> 0]
  /\ regexResult = [s \in Slots |-> NoData]
  /\ parsedData = [s \in Slots |-> NoData]
  /\ existingApp = [s \in Slots |-> 0]
  /\ sync = [s \in Slots |-> NoSync]
  /\ call = [s \in Slots |-> NoCall]
  /\ ver = 0
  /\ lastCall = NoLast
  /\ createdFor = [e \in 1..NEmails |-> 0]
  /\ faults = 0
  /\ ncalls = 0
  /\ overlap = FALSE
  /\ currentJob = 0

\* the job progress updates of the queue are never rejected
Init == InitWorker /\ pfaults = 0

----------------------------------------------------------------------------
(* queue/email.js *)

NewJob(name, data) ==
  [name |-> name, data |-> data, priority |-> 0, attemptsMade |-> 0, state |-> "waiting",
   failedReason |-> "none", result |-> NoResult, items |-> <<>>]

\* the jobs of the queue and of the slots
NJobs == BagCardinality(jobs) + Cardinality({s \in Slots : job[s] # NoJob})

\* addEmailToQueue / addBulkEmailsToQueue: one process-email job per email
addEmailToQueue(e) ==
  /\ NJobs < MaxJobs
  /\ jobs' = jobs (+) SetToBag({NewJob("process-email", e)})
  /\ UNCHANGED <<pc, job, sync, ncalls, overlap, locals, store, progress>>

\* addBulkEmailsToQueue(emails) for the first n messages of the mailbox, as
\* the cron callback and POST /emails/sync call it; index counts from 0
addBulkEmailsToQueue(n) ==
  /\ NJobs = 0
  /\ n <= NEmails
  /\ jobs' = SetToBag({[NewJob("process-email", index + 1) EXCEPT !.priority = 10 - index] :
                         index \in 0..(n - 1)})
  /\ UNCHANGED <<pc, job, sync, ncalls, overlap, locals, store, progress>>

\* addPeriodicSyncJob: the repeatable job has one instance at a time
addPeriodicSyncJob ==
  /\ NJobs < MaxJobs
  /\ \A jb \in BagToSet(jobs) : ~(jb.name = "sync-emails" /\ jb.state = "waiting")
  /\ \A s \in Slots : job[s].name # "sync-emails"
  /\ jobs' = jobs (+) SetToBag({NewJob("sync-emails", 0)})
  /\ UNCHANGED <<pc, job, sync, ncalls, overlap, locals, store, progress>>

\* faulty variant of JobFailed: a failed attempt is always retried
JobFailedAlwaysWaiting(jb, reason) ==
  [jb EXCEPT !.state = "waiting", !.failedReason = reason]

\* defaultJobOptions.attempts: a failed attempt is retried while attempts remain
JobFailed(jb, reason) ==
  [jb EXCEPT !.state = IF jb.attemptsMade < Attempts THEN "waiting" ELSE "failed",
             !.failedReason = reason]

\* faulty variant of JobCompleted: a job that returned is queued again
JobCompletedRequeued(jb, result, items) ==
  [jb EXCEPT !.state = "waiting", !.result = result, !.items = items]

\* the processor returned: the queue records the result, the job is completed
JobCompleted(jb, result, items) ==
  [jb EXCEPT !.state = "completed", !.result = result, !.items = items]

----------------------------------------------------------------------------
(* workers/emailProcessor.js *)

\* faulty variant of the catch below: the error leaves the loop
syncEmailsItemRethrow(sy, error) == [sy EXCEPT !.escaped = error]

\* the catch of the loop of syncEmails: count the error and go on
syncEmailsItemCatch(sy, error) == [sy EXCEPT !.errors = @ + 1]

\* the counters of the loop of syncEmails
syncEmailsCount(sy, outcome) ==
  IF outcome = "skipped" THEN [sy EXCEPT !.skipped = @ + 1]
  ELSE [sy EXCEPT !.processed = @ + 1]

\* faulty variant of isSkipped: every record not known to be job-related
\* is skipped
isSkippedFalsy(data) == data.isJobRelated \notin {"true", "string"}

\* line 64: if (!parsedData || parsedData.isJobRelated === false)
isSkipped(data) == data.isJobRelated = JsFalse

\* faulty variant of the test below: the lookup's result is ignored
existingAppNever(app) == FALSE

\* notion.js line 24: if (existingApp)
existingAppFound(app) == app # 0

\* notion.js lines 74 and 81: results.length > 0 ? results[0] : null; the
\* order of the results of a query without sorts is the database's choice
FirstOrNull(results) == IF results = {} THEN {0} ELSE results

\* faulty variant of the test below: the link query is made whatever the
\* first query returned
needsLinkQueryAlways(gmailLink, results) == gmailLink # Empty

\* notion.js line 63: if (gmailLink && response.results.length === 0)
needsLinkQuery(gmailLink, results) == gmailLink # Empty /\ results = {}

\* the updateProgress calls, named by their lines in emailProcessor.js; fa
\* names the one that is rejected in a step ("none": none is)
ProgressSites == {"none", "58", "69", "74", "98", "103", "124", "137"}

\* updateProgress rejects only when it calls currentJob.updateProgress
\* (line 160: if (this.currentJob)) and the queue rejects the call
MayReject(fa, target) == fa = "none" \/ (pfaults > 0 /\ target # 0)

Rejected(fa) == IF fa = "none" THEN 0 ELSE 1

\* catch (error) { console.error('Error in email sync:', error); throw error; }
syncEmailsCatch(error) == error

\* the job of slot s ends as jb and goes back to the queue; the listeners of
\* 'completed' and 'failed' set this.currentJob = null
Release(s, jb) ==
  /\ jobs' = jobs (+) SetToBag({jb})
  /\ currentJob' = 0
  /\ pc' = [pc EXCEPT ![s] = "idle"]
  /\ job' = [job EXCEPT ![s] = NoJob]
  /\ email' = [email EXCEPT ![s] = 0]
  /\ text' = [text EXCEPT ![s] = 0]
  /\ regexResult' = [regexResult EXCEPT ![s] = NoData]
  /\ parsedData' = [parsedData EXCEPT ![s] = NoData]
  /\ existingApp' = [existingApp EXCEPT ![s] = 0]
  /\ sync' = [sync EXCEPT ![s] = NoSync]
  /\ call' = [call EXCEPT ![s] = NoCall]
  /\ overlap' = overlap

\* processEmail(emailData) begins: parseEmail runs extractWithRegex and calls
\* the classifier
BeginProcessEmail(s, e, fa) ==
  /\ pc' = [pc EXCEPT ![s] = IF fa = "58" THEN "thrown" ELSE "classify"]
  /\ email' = [email EXCEPT ![s] = e]
  /\ text' = [text EXCEPT ![s] = 0]
  /\ regexResult' = [regexResult EXCEPT ![s] = extractWithRegex(Emails[e])]
  /\ parsedData' = [parsedData EXCEPT ![s] = NoData]
  /\ existingApp' = [existingApp EXCEPT ![s] = 0]
  /\ call' = [call EXCEPT ![s] = NoCall]
  /\ overlap' = (overlap \/ \E o \in Slots \ {s} : InCall(o))

\* processJob's end for a process-email job: the job the queue records
JobAfter(jb, outcome, error, page) ==
  IF outcome = "throw" THEN JobFailed(jb, processJobCatch(error))
  ELSE JobCompleted(jb, [NoResult EXCEPT !.type = outcome, !.notionPageId = page], <<>>)

\* processEmail returns (outcome "skipped" or "success") or throws error:
\* processJob ends the job, or the loop of syncEmails goes on
EndProcessEmail(s, outcome, error, page, fa) ==
  IF job[s].name = "process-email"
  THEN /\ fa = "none"
       /\ Release(s, JobAfter(job[s], outcome, error, page))
  ELSE LET counted == IF outcome = "throw" THEN syncEmailsItemCatch(sync[s], error)
                      ELSE syncEmailsCount(sync[s], outcome)
           sy == IF fa = "124" THEN syncEmailsItemCatch(counted, "ProgressError")
                 ELSE counted
           next == [sy EXCEPT !.i = @ + 1, !.items = Append(@, outcome)]
       IN /\ fa = "124" => outcome # "throw"
          /\ IF sy.escaped # "none"
             THEN /\ fa \in {"none", "124"}
                  /\ Release(s, JobFailed(job[s], processJobCatch(sy.escaped)))
             ELSE IF next.i > Len(next.emails)
             THEN /\ fa \in {"none", "124", "137"}
                  /\ IF fa = "137"
                     THEN Release(s, [JobFailed(job[s],
                                        processJobCatch(syncEmailsCatch("ProgressError")))
                                        EXCEPT !.items = next.items])
                     ELSE Release(s, JobCompleted(job[s],
                            [NoResult EXCEPT !.type = "sync",
                                             !.totalEmails = Len(next.emails),
                                             !.processed = next.processed,
                                             !.skipped = next.skipped,
                                             !.errors = next.errors], next.items))
             ELSE /\ fa \in {"none", "124", "58"}
                  /\ jobs' = jobs
                  /\ job' = job
                  /\ currentJob' = currentJob
                  /\ sync' = [sync EXCEPT ![s] = next]
                  /\ BeginProcessEmail(s, next.emails[next.i], fa)

\* the worker takes a waiting job: processJob(job); the slots of the worker
\* are interchangeable, the lowest idle one is taken
processJob(s, jb, lim) ==
  /\ pc[s] = "idle"
  /\ \A o \in Slots : o < s => pc[o] # "idle"
  /\ BagIn(jb, jobs)
  /\ jb.state = "waiting"
  /\ jobs' = jobs (-) SetToBag({jb})
  /\ job' = [job EXCEPT ![s] = [jb EXCEPT !.state = "active", !.attemptsMade = @ + 1]]
  /\ sync' = sync
  /\ currentJob' = s
  /\ \E fa \in {"none", IF jb.name = "process-email" THEN "58" ELSE "98"} :
       /\ MayReject(fa, s)
       /\ pfaults' = pfaults - Rejected(fa)
       /\ IF jb.name = "process-email"
          THEN /\ ncalls < lim
               /\ ncalls' = ncalls + 1
               /\ BeginProcessEmail(s, jb.data, fa)
          ELSE /\ pc' = [pc EXCEPT ![s] = IF fa = "98" THEN "thrown" ELSE "fetch"]
               /\ UNCHANGED <<ncalls, overlap, locals>>
  /\ UNCHANGED store

\* the batches getJobEmails can return: distinct messages, at most MaxBatch
Batches ==
  {b \in UNION {[1..n -> Inbox] : n \in 0..MaxBatch} :
     \A x, y \in 1..Len(b) : x # y => b[x] # b[y]}

\* syncEmails: getJobEmails returns a batch or throws
syncEmails(s, lim) ==
  /\ pc[s] = "fetch"
  /\ UNCHANGED store
  /\ \/ /\ ncalls' = ncalls
        /\ pfaults' = pfaults
        /\ Release(s, JobFailed(job[s], processJobCatch(syncEmailsCatch("GmailError"))))
     \/ \E batch \in Batches : \E fa \in {"none", "103", "137", "58"} :
          /\ MayReject(fa, currentJob)
          /\ pfaults' = pfaults - Rejected(fa)
          /\ IF fa = "103"
             THEN /\ ncalls' = ncalls
                  /\ Release(s, JobFailed(job[s],
                                  processJobCatch(syncEmailsCatch("ProgressError"))))
             ELSE IF batch = <<>>
             THEN /\ fa \in {"none", "137"}
                  /\ ncalls' = ncalls
                  /\ IF fa = "137"
                     THEN Release(s, JobFailed(job[s],
                                     processJobCatch(syncEmailsCatch("ProgressError"))))
                     ELSE Release(s, JobCompleted(job[s],
                                     [NoResult EXCEPT !.type = "sync"], <<>>))
             ELSE /\ fa \in {"none", "58"}
                  /\ ncalls + Len(batch) <= lim
                  /\ ncalls' = ncalls + Len(batch)
                  /\ jobs' = jobs
                  /\ job' = job
                  /\ currentJob' = currentJob
                  /\ sync' = [sync EXCEPT ![s] = [NoSync EXCEPT !.emails = batch, !.i = 1]]
                  /\ BeginProcessEmail(s, batch[1], fa)

\* the response is an object that says the email is not job-related
isVeto(response) == response.json = "object" /\ response.obj.isJobRelated = JsFalse

\* processEmail: parseEmail returns or throws, then the skip test of line 64
processEmailParse(s, replies) ==
  /\ pc[s] = "classify"
  /\ ncalls' = ncalls
  /\ \E r \in replies : \E fa \in ProgressSites :
       LET parsed == parseEmailMerge(Emails[email[s]], regexResult[s], Responses[r])
       IN /\ MayReject(fa, currentJob)
          /\ pfaults' = pfaults - Rejected(fa)
          /\ IF parsed.result = "throw"
             THEN /\ EndProcessEmail(s, "throw", processEmailCatch(parsed.error), 0, fa)
                  /\ UNCHANGED store
             ELSE IF isSkipped(parsed.value)
             THEN /\ EndProcessEmail(s, "skipped", "none", 0, fa)
                  /\ UNCHANGED store
             ELSE IF fa = "69"
             THEN /\ EndProcessEmail(s, "throw", processEmailCatch("ProgressError"), 0, "none")
                  /\ UNCHANGED store
             ELSE /\ fa = "none"
                  /\ pc' = [pc EXCEPT ![s] = "query"]
                  /\ text' = [text EXCEPT ![s] = r]
                  /\ parsedData' = [parsedData EXCEPT ![s] = parsed.value]
                  /\ call' = [call EXCEPT ![s].veto = isVeto(Responses[r])]
                  /\ UNCHANGED <<jobs, job, email, regexResult, existingApp, sync,
                                 overlap, store, currentJob>>

\* processEmail or syncEmails after an updateProgress call at its start was
\* rejected: the catch of processEmail (lines 85-88) or of syncEmails (150-153)
updateProgressThrew(s) ==
  /\ pc[s] = "thrown"
  /\ ncalls' = ncalls
  /\ UNCHANGED store
  /\ \E fa \in ProgressSites :
       /\ MayReject(fa, currentJob)
       /\ pfaults' = pfaults - Rejected(fa)
       /\ IF email[s] # 0
          THEN EndProcessEmail(s, "throw", processEmailCatch("ProgressError"), 0, fa)
          ELSE /\ fa = "none"
               /\ Release(s, JobFailed(job[s],
                               processJobCatch(syncEmailsCatch("ProgressError"))))

\* findExistingApplication: the query by company and role
findExistingApplication(s, flim) ==
  /\ pc[s] = "query"
  /\ text' = [text EXCEPT ![s] = 0]
  /\ UNCHANGED <<pages, ver, lastCall, createdFor, jobs, job, email, regexResult,
                 parsedData, sync, ncalls, overlap, progress>>
  /\ LET results == QueryCompanyRole(pages, parsedData[s].company, parsedData[s].role)
         started == [call[s] EXCEPT !.qver = ver, !.lookups = @ + 1,
                                    !.prev = Summary(lastCall)]
         answered == [started EXCEPT !.primary = results]
     IN \/ \* the query throws; outer catch: return null
           /\ faults < flim
           /\ faults' = faults + 1
           /\ existingApp' = [existingApp EXCEPT ![s] = 0]
           /\ pc' = [pc EXCEPT ![s] = "write"]
           /\ call' = [call EXCEPT ![s] = [started EXCEPT !.lookupFailed = TRUE]]
        \/ /\ faults' = faults
           /\ call' = [call EXCEPT ![s] = answered]
           /\ IF needsLinkQuery(parsedData[s].gmailLink, results)
              THEN /\ pc' = [pc EXCEPT ![s] = "linkQuery"]
                   /\ existingApp' = existingApp
              ELSE /\ pc' = [pc EXCEPT ![s] = "write"]
                   /\ \E app \in FirstOrNull(results) :
                        existingApp' = [existingApp EXCEPT ![s] = app]

\* findExistingApplication: the query by Gmail link
findByGmailLink(s, flim) ==
  /\ pc[s] = "linkQuery"
  /\ pc' = [pc EXCEPT ![s] = "write"]
  /\ UNCHANGED <<pages, ver, lastCall, createdFor, jobs, job, email, text,
                 regexResult, parsedData, sync, ncalls, overlap, progress>>
  /\ \/ \* the query throws; inner catch: the link query is skipped and the empty
        \* result of the first query decides
        /\ faults < flim
        /\ faults' = faults + 1
        /\ existingApp' = [existingApp EXCEPT ![s] = 0]
        /\ call' = [call EXCEPT ![s].lookupFailed = TRUE, ![s].lookups = @ + 1]
     \/ /\ faults' = faults
        /\ call' = [call EXCEPT ![s].lookups = @ + 1,
                               ![s].linked = QueryGmailLink(pages, parsedData[s].gmailLink)]
        /\ \E app \in FirstOrNull(QueryGmailLink(pages, parsedData[s].gmailLink)) :
             existingApp' = [existingApp EXCEPT ![s] = app]

Finished(s, kind, page, error, storeError) ==
  [kind |-> kind, data |-> parsedData[s], page |-> page, veto |-> call[s].veto,
   lookupFailed |-> call[s].lookupFailed, sequential |-> (call[s].qver = ver),
   job |-> IF job[s].name = "process-email"
           THEN JobAfter(job[s], IF kind = "threw" THEN "throw" ELSE "success", error, page)
           ELSE job[s],
   error |-> error, storeError |-> storeError,
   lookups |-> call[s].lookups,
   pageBefore |-> IF kind = "updated" THEN pages[page] ELSE NoPage,
   prev |-> call[s].prev, primary |-> call[s].primary, linked |-> call[s].linked]

\* createOrUpdateApplication: updateApplication or createApplication
createOrUpdateApplication(s, flim) ==
  /\ pc[s] = "write"
  /\ ncalls' = ncalls
  /\ \E fa \in ProgressSites :
       LET page == IF existingAppFound(existingApp[s]) THEN existingApp[s]
                   ELSE Len(pages) + 1
           kind == IF existingAppFound(existingApp[s]) THEN "updated" ELSE "created"
           progressError == processEmailCatch("ProgressError")
       IN /\ MayReject(fa, currentJob)
          /\ pfaults' = pfaults - Rejected(fa)
          /\ \/ \* the write succeeds, then line 74: updateProgress(100, 'Completed')
                /\ IF existingAppFound(existingApp[s])
                   THEN /\ pages' = PagesUpdate(pages, existingApp[s],
                                                buildNotionProperties(parsedData[s], TRUE))
                        /\ createdFor' = createdFor
                   ELSE /\ pages' = PagesCreate(pages,
                                                buildNotionProperties(parsedData[s], FALSE))
                        /\ createdFor' = [createdFor EXCEPT ![email[s]] = @ + 1]
                /\ ver' = ver + 1
                /\ faults' = faults
                /\ IF fa = "74"
                   THEN /\ lastCall' =
                             [Finished(s, kind, page, "none", "none") EXCEPT
                                !.job = IF job[s].name = "process-email"
                                        THEN JobAfter(job[s], "throw", progressError, 0)
                                        ELSE job[s]]
                        /\ EndProcessEmail(s, "throw", progressError, 0, "none")
                   ELSE /\ lastCall' = Finished(s, kind, page, "none", "none")
                        /\ EndProcessEmail(s, "success", "none", page, fa)
             \/ \E storeError \in StoreErrors :
                  LET error == processEmailCatch(createOrUpdateApplicationCatch(
                                 IF existingAppFound(existingApp[s])
                                 THEN updateApplicationCatch(storeError)
                                 ELSE createApplicationCatch(storeError)))
                  IN /\ faults < flim
                     /\ faults' = faults + 1
                     /\ UNCHANGED <<pages, ver, createdFor>>
                     /\ lastCall' = Finished(s, "threw", 0, error, storeError)
                     /\ EndProcessEmail(s, "throw", error, 0, fa)

\* the worker with its two concurrent slots
Next ==
  \/ \E e \in Inbox : addEmailToQueue(e)
  \/ addPeriodicSyncJob
  \/ \E s \in Slots : \E jb \in BagToSet(jobs) : processJob(s, jb, MaxCalls)
  \/ \E s \in Slots : syncEmails(s, MaxCalls)
  \/ \E s \in Slots : processEmailParse(s, Replies)
  \/ \E s \in Slots : findExistingApplication(s, MaxFaults)
  \/ \E s \in Slots : findByGmailLink(s, MaxFaults)
  \/ \E s \in Slots : createOrUpdateApplication(s, MaxFaults)

Spec == Init /\ [][Next]_vars

\* the runs in which the jobs are processed one after the other
NextSeq ==
  \/ \E e \in Inbox : addEmailToQueue(e)
  \/ addPeriodicSyncJob
  \/ \E jb \in BagToSet(jobs) : processJob(1, jb, MaxSeqCalls)
  \/ syncEmails(1, MaxSeqCalls)
  \/ processEmailParse(1, Replies)
  \/ findExistingApplication(1, MaxFaults)
  \/ findByGmailLink(1, MaxFaults)
  \/ createOrUpdateApplication(1, MaxFaults)

SpecSeq == Init /\ [][NextSeq]_vars

\* the runs in which two messages without company and role are processed
\* one after the other as process-email jobs
NextDefaults ==
  \/ \E e \in DefaultsInbox : addEmailToQueue(e)
  \/ \E jb \in BagToSet(jobs) : processJob(1, jb, MaxCalls)
  \/ processEmailParse(1, Replies)
  \/ findExistingApplication(1, MaxFaults)
  \/ findByGmailLink(1, MaxFaults)
  \/ createOrUpdateApplication(1, MaxFaults)

SpecDefaults == Init /\ [][NextDefaults]_vars

\* the runs in which the process-email jobs of one message are processed
\* while the store fails up to MaxRetryFaults times
NextRetry ==
  \/ \E e \in RetryInbox : addEmailToQueue(e)
  \/ \E jb \in BagToSet(jobs) : processJob(1, jb, MaxRetryCalls)
  \/ processEmailParse(1, Replies)
  \/ findExistingApplication(1, MaxRetryFaults)
  \/ findByGmailLink(1, MaxRetryFaults)
  \/ createOrUpdateApplication(1, MaxRetryFaults)

SpecRetry == Init /\ [][NextRetry]_vars

\* the runs that examine the record parseEmail returns and what is written
\* of it: one job at a time, the store never fails
NextParse ==
  \/ \E e \in ParseInbox : addEmailToQueue(e)
  \/ \E jb \in BagToSet(jobs) : processJob(1, jb, MaxParseCalls)
  \/ processEmailParse(1, ParseReplies)
  \/ findExistingApplication(1, 0)
  \/ findByGmailLink(1, 0)
  \/ createOrUpdateApplication(1, 0)

SpecParse == Init /\ [][NextParse]_vars

\* the runs that examine the Pattern Extractor: the classifier contributes
\* nothing, the store never fails
NextExtract ==
  \/ \E e \in ExtractInbox : addEmailToQueue(e)
  \/ \E jb \in BagToSet(jobs) : processJob(1, jb, MaxExtractCalls)
  \/ processEmailParse(1, ExtractReplies)
  \/ findExistingApplication(1, 0)
  \/ findByGmailLink(1, 0)
  \/ createOrUpdateApplication(1, 0)

SpecExtract == Init /\ [][NextExtract]_vars

\* the runs in which one batch of messages is queued in bulk and its jobs
\* are processed one after the other
NextBulk ==
  \/ \E n \in 1..MaxBulk : addBulkEmailsToQueue(n)
  \/ \E jb \in BagToSet(jobs) : processJob(1, jb, MaxExtractCalls)
  \/ processEmailParse(1, ExtractReplies)
  \/ findExistingApplication(1, 0)
  \/ findByGmailLink(1, 0)
  \/ createOrUpdateApplication(1, 0)

SpecBulk == Init /\ [][NextBulk]_vars

\* the job progress updates of the queue can be rejected MaxProgressFaults times
InitProgress == InitWorker /\ pfaults = MaxProgressFaults

\* the runs in which the queue can reject an updateProgress call: one job at
\* a time, the store never fails
NextProgress ==
  \/ \E e \in RetryInbox : addEmailToQueue(e)
  \/ addPeriodicSyncJob
  \/ \E jb \in BagToSet(jobs) : processJob(1, jb, MaxProgressCalls)
  \/ syncEmails(1, MaxProgressCalls)
  \/ processEmailParse(1, ExtractReplies)
  \/ updateProgressThrew(1)
  \/ findExistingApplication(1, 0)
  \/ findByGmailLink(1, 0)
  \/ createOrUpdateApplication(1, 0)

SpecProgress == InitProgress /\ [][NextProgress]_vars

\* the process is running: no shutdown signal has made it exit
Running == \A s \in Slots : pc[s] # "exited"

\* SIGTERM or SIGINT: the listeners run in the order of their registration.
\* Those of index.js (lines 163-171) are registered when the module loads,
\* before startServer constructs the EmailProcessor, and call
\* process.exit(0); the listeners of the EmailProcessor (lines 197-205:
\* await this.worker.close()) never run. The jobs in progress stay as they are.
shutdownSignal ==
  /\ Running
  /\ pc' = [s \in Slots |-> "exited"]
  /\ UNCHANGED <<jobs, job, sync, ncalls, overlap, locals, store, progress>>

\* the runs that end with a shutdown signal: the store never fails
NextShutdown ==
  \/ shutdownSignal
  \/ \E e \in Inbox : Running /\ addEmailToQueue(e)
  \/ \E s \in Slots : \E jb \in BagToSet(jobs) : processJob(s, jb, MaxShutdownCalls)
  \/ \E s \in Slots : processEmailParse(s, ExtractReplies)
  \/ \E s \in Slots : findExistingApplication(s, 0)
  \/ \E s \in Slots : findByGmailLink(s, 0)
  \/ \E s \in Slots : createOrUpdateApplication(s, 0)

SpecShutdown == Init /\ [][NextShutdown]_vars

\* every attempt of every job can be made: the limit on processEmail calls
\* never stops the worker
LiveCalls == MaxJobs * Attempts

\* the runs of one job at a time in which the classifier, the store and the
\* progress updates of the queue can fail
NextLive ==
  \/ \E e \in RetryInbox : addEmailToQueue(e)
  \/ \E jb \in BagToSet(jobs) : processJob(1, jb, LiveCalls)
  \/ processEmailParse(1, LiveReplies)
  \/ updateProgressThrew(1)
  \/ findExistingApplication(1, MaxFaults)
  \/ findByGmailLink(1, MaxFaults)
  \/ createOrUpdateApplication(1, MaxFaults)

\* a step of the job in progress: at most one of these is enabled at a time
InProgressStep ==
  \/ processEmailParse(1, LiveReplies)
  \/ updateProgressThrew(1)
  \/ findExistingApplication(1, MaxFaults)
  \/ findByGmailLink(1, MaxFaults)
  \/ createOrUpdateApplication(1, MaxFaults)

\* processJob is enabled: the worker is idle and a job is waiting
CanTake ==
  /\ pc[1] = "idle"
  /\ ncalls < LiveCalls
  /\ \E jb \in BagToSet(jobs) : jb.state = "waiting"

\* a processJob step: the worker leaves idle
Taken == pc[1] = "idle" /\ pc'[1] # "idle"

\* every call of the classifier, of the store and of the queue returns or
\* throws, and the worker takes a waiting job whenever it is idle (weak
\* fairness of processJob, with its enabling condition written out)
Fairness ==
  /\ WF_vars(InProgressStep)
  /\ ([]<>(~CanTake) \/ []<><<Taken>>_vars)

SpecLive == InitProgress /\ [][NextLive]_vars /\ Fairness

----------------------------------------------------------------------------
(* Properties *)

\* C1: idempotence of reconciliation. When a createOrUpdateApplication call
\* created a page, no lookup failed, no other write came between, and the
\* next call carries the same record (company and role not the defaults),
\* then that next call updates the page the first one created and exactly
\* one page matches the company and role.
C1_Idempotent ==
  LET d == lastCall.data
  IN (/\ lastCall.prev.kind = "created"
      /\ lastCall.prev.data = d
      /\ lastCall.prev.sequential /\ ~lastCall.prev.lookupFailed
      /\ lastCall.sequential /\ ~lastCall.lookupFailed
      /\ lastCall.kind # "threw"
      /\ d.company \notin {Empty, S_Unknown}
      /\ d.role \notin {Empty, S_NotSpecified})
     => /\ lastCall.kind = "updated"
        /\ lastCall.page = lastCall.prev.page
        /\ Cardinality(QueryCompanyRole(pages, d.company, d.role)) = 1

C1_Witness ==
  /\ lastCall.kind = "updated"
  /\ lastCall.prev.kind = "created"
  /\ lastCall.prev.data = lastCall.data
  /\ lastCall.prev.sequential /\ lastCall.sequential
  /\ ~lastCall.prev.lookupFailed /\ ~lastCall.lookupFailed
  /\ lastCall.data.company = S_AcmeCorp
  /\ lastCall.page = lastCall.prev.page
  /\ Len(pages) = 1

\* C2: non-regression on update. When an update carries a record without
\* classifier corroboration (isJobRelated unknown, no confidence) whose
\* status, company or role is the default placeholder, a specific value the
\* page held for that field is still there after the update.
C2_NonRegression ==
  (/\ lastCall.kind = "updated"
   /\ lastCall.data.isJobRelated = JsUndefined
   /\ lastCall.data.confidence = NoNumber)
  => LET before == lastCall.pageBefore
         after == pages[lastCall.page]
         d == lastCall.data
     IN /\ (d.status \in {Empty, S_Applied} /\ before.Status # S_Applied)
             => after.Status = before.Status
        /\ (d.company \in {Empty, S_Unknown} /\ before.Company # S_Unknown)
             => after.Company = before.Company
        /\ (d.role \in {Empty, S_NotSpecified} /\ before.Role # S_NotSpecified)
             => after.Role = before.Role

\* C3: safety under concurrent processing. When the two slots of the worker
\* have processed messages of the same company and role with the store
\* available, and both have finished, no two pages hold the same company and
\* role.
C3_ConcurrentSafe ==
  (/\ overlap
   /\ faults = 0
   /\ \A s \in Slots : pc[s] = "idle")
  => \A p, q \in 1..Len(pages) :
       (pages[p].Company = pages[q].Company /\ pages[p].Role = pages[q].Role)
         => p = q

\* C4: veto skip. No createOrUpdateApplication call (lookup, creation or
\* update) is made for a message whose classifier response is an object with
\* isJobRelated false.
C4_VetoSkips ==
  /\ \A s \in Slots : call[s].veto => pc[s] \notin {"query", "linkQuery", "write"}
  /\ ~lastCall.veto

\* C5: confidence gate. After parseEmail, the object of the classifier's
\* response has overridden the pattern output if and only if its
\* isJobRelated is exactly true and its confidence is above 0.6; a rejected
\* object contributes no field.
C5_ConfidenceGate ==
  \A s \in Slots :
    (pc[s] = "query" /\ Responses[text[s]].json = "object")
    => LET o == Responses[text[s]].obj
           plain == [regexResult[s] EXCEPT !.gmailLink = Emails[email[s]].gmailLink]
       IN IF o.isJobRelated = JsTrue /\ o.confidence > ConfidenceGate
          THEN /\ parsedData[s].company = o.company
               /\ parsedData[s].role = o.role
               /\ parsedData[s].status = o.status
               /\ parsedData[s].platform = o.platform
               /\ parsedData[s].confidence = o.confidence
          ELSE parsedData[s] = plain

\* C6: batch isolation. In syncEmails an item that throws is counted as an
\* error and the loop goes on with the next item: the counters of the loop
\* agree with the outcomes of the items so far, a completed sync job has an
\* outcome for every email of the batch, and a sync job fails only when the
\* fetch of the batch fails.
C6_BatchIsolation ==
  /\ \A s \in Slots :
       (job[s].name = "sync-emails" /\ InCall(s))
       => LET sy == sync[s]
          IN /\ sy.i = Len(sy.items) + 1
             /\ sy.i <= Len(sy.emails)
             /\ sy.errors = Cardinality({k \in 1..Len(sy.items) : sy.items[k] = "throw"})
             /\ sy.processed = Cardinality({k \in 1..Len(sy.items) : sy.items[k] = "success"})
  /\ \A jb \in BagToSet(jobs) :
       jb.name = "sync-emails"
       => /\ jb.failedReason \in {"none", "GmailError"}
          /\ jb.state = "completed"
               => /\ Len(jb.items) = jb.result.totalEmails
                  /\ jb.result.errors =
                       Cardinality({k \in 1..Len(jb.items) : jb.items[k] = "throw"})
                  /\ jb.result.processed =
                       Cardinality({k \in 1..Len(jb.items) : jb.items[k] = "success"})
                  /\ jb.result.skipped =
                       Cardinality({k \in 1..Len(jb.items) : jb.items[k] = "skipped"})

C6_Witness ==
  \E jb \in BagToSet(jobs) :
    /\ jb.name = "sync-emails"
    /\ jb.state = "completed"
    /\ jb.items = <<"throw", "success">>
    /\ jb.result.errors = 1
    /\ jb.result.processed = 1
    /\ jb.result.totalEmails = 2

\* C7: classifier failure is absorbed. When the call of the classifier
\* throws, or its response holds no JSON object or malformed JSON, parseEmail
\* returns; the record has the company, role, status, platform and
\* applicationDate of the pattern extractor, isJobRelated unknown and no
\* confidence.
C7_ClassifierFailureAbsorbed ==
  \A s \in Slots :
    /\ pc[s] = "classify"
       => \A r \in 1..NResponses :
            (Responses[r].kind = "throw" \/ Responses[r].json \in {"none", "malformed"})
            => LET parsed == parseEmailMerge(Emails[email[s]], regexResult[s], Responses[r])
               IN /\ parsed.result = "value"
                  /\ parsed.value =
                       [regexResult[s] EXCEPT !.gmailLink = Emails[email[s]].gmailLink]
    /\ (pc[s] = "query" /\ Responses[text[s]].json # "object")
       => /\ parsedData[s].company = regexResult[s].company
          /\ parsedData[s].role = regexResult[s].role
          /\ parsedData[s].status = regexResult[s].status
          /\ parsedData[s].platform = regexResult[s].platform
          /\ parsedData[s].applicationDate = regexResult[s].applicationDate
          /\ parsedData[s].isJobRelated = JsUndefined
          /\ parsedData[s].confidence = NoNumber

C7_Witness ==
  \E s \in Slots :
    /\ pc[s] = "query"
    /\ Responses[text[s]].kind = "throw"
    /\ parsedData[s].company = S_AcmeCorp
    /\ parsedData[s].status = S_Interview
    /\ parsedData[s].isJobRelated = JsUndefined

\* C8: a store lookup failure surfaces. A createOrUpdateApplication call in
\* which a query of findExistingApplication failed creates and updates
\* nothing.
C8_LookupFailureSurfaces ==
  lastCall.lookupFailed => lastCall.kind \notin {"created", "updated"}

\* C9: a store write failure propagates intact. When pages.create or
\* pages.update throws, createOrUpdateApplication and processEmail throw the
\* same error, nothing is written, and processJob fails the queue job of a
\* process-email job with that error for that attempt: the job waits for its
\* retry while attempts remain and is failed after the last one.
C9_WriteFailurePropagates ==
  lastCall.kind = "threw"
  => /\ lastCall.error = lastCall.storeError
     /\ lastCall.storeError \in StoreErrors
     /\ lastCall.page = 0
     /\ lastCall.job.name = "process-email"
          => /\ lastCall.job.failedReason = lastCall.storeError
             /\ lastCall.job.state =
                  IF lastCall.job.attemptsMade < Attempts THEN "waiting" ELSE "failed"

C9_Witness ==
  /\ lastCall.kind = "threw"
  /\ lastCall.job.name = "process-email"
  /\ lastCall.job.failedReason = "APIResponseError"
  /\ lastCall.job.attemptsMade = 1
  /\ lastCall.job.state = "waiting"
  /\ BagIn(lastCall.job, jobs)

\* C10: duplicate delivery of one email never duplicates its record. When
\* the emails are processed one after the other with the store available, at
\* most one page is ever created for an email.
C10_OnePagePerEmail ==
  (~overlap /\ faults = 0) => \A e \in 1..NEmails : createdFor[e] <= 1

\* C11: the match by company and role is not used for the defaults. When
\* the store is available and an update carries a record whose company is
\* "Unknown" or whose role is "Not specified", the page updated is one that
\* held the Gmail link of that record: a message without company and role
\* never updates the page of another message.
C11_DefaultsMatchByLinkOnly ==
  (/\ faults = 0
   /\ lastCall.kind = "updated"
   /\ (lastCall.data.company = S_Unknown \/ lastCall.data.role = S_NotSpecified))
  => lastCall.pageBefore.GmailLink = lastCall.data.gmailLink

\* C12: the match by Gmail link is consulted only when the match by company
\* and role returns nothing. In a call whose queries succeeded and that wrote
\* a page: when the first query returned pages, no link query was made and
\* one of those pages is the one updated, whatever its Gmail link; when it
\* returned none, the link query was made (the record has a link), a page it
\* returned is updated, and without one a page is created.
C12_SecondaryOnlyWhenPrimaryEmpty ==
  (lastCall.kind \in {"created", "updated"} /\ ~lastCall.lookupFailed)
  => IF lastCall.primary # {}
     THEN /\ lastCall.lookups = 1
          /\ lastCall.kind = "updated"
          /\ lastCall.page \in lastCall.primary
     ELSE IF lastCall.data.gmailLink = Empty
     THEN lastCall.lookups = 1 /\ lastCall.kind = "created"
     ELSE /\ lastCall.lookups = 2
          /\ IF lastCall.linked = {}
             THEN lastCall.kind = "created"
             ELSE lastCall.kind = "updated" /\ lastCall.page \in lastCall.linked

C12_Witness ==
  /\ lastCall.kind = "updated"
  /\ ~lastCall.lookupFailed
  /\ lastCall.primary # {}
  /\ lastCall.lookups = 1
  /\ lastCall.page \in lastCall.primary
  /\ lastCall.pageBefore.GmailLink # lastCall.data.gmailLink

\* C13: applicationDate is written only by the creation of a page. No step
\* of the worker changes the 'Application Date' of a page that exists, so
\* every page keeps the value it was created with.
C13_ApplicationDateFrozen ==
  [][\A p \in 1..Len(pages) :
       /\ p <= Len(pages')
       /\ pages'[p].ApplicationDate = pages[p].ApplicationDate]_vars

C13_Witness ==
  /\ lastCall.kind = "updated"
  /\ lastCall.data.applicationDate # lastCall.pageBefore.ApplicationDate
  /\ pages[lastCall.page].ApplicationDate = lastCall.pageBefore.ApplicationDate

\* C14: lastResponseDate is last-write-wins. After every update of a page
\* its 'Last Response Date' is the lastResponseDate of the record just
\* reconciled, also when that date is older than the one the page held.
C14_LastResponseDateOverwritten ==
  lastCall.kind = "updated"
  => pages[lastCall.page].LastResponseDate = lastCall.data.lastResponseDate

C14_Witness ==
  /\ lastCall.kind = "updated"
  /\ lastCall.data.lastResponseDate < lastCall.pageBefore.LastResponseDate
  /\ pages[lastCall.page].LastResponseDate = lastCall.data.lastResponseDate

\* C15: in every record parseEmail returns, gmailLink is the link of the
\* message and lastResponseDate is the date of the message, whatever the
\* classifier answered.
C15_LinkAndDateFromMessage ==
  \A s \in Slots :
    pc[s] \in {"query", "linkQuery", "write"}
    => /\ parsedData[s].gmailLink = Emails[email[s]].gmailLink
       /\ parsedData[s].lastResponseDate = Emails[email[s]].date

\* C16: the status of every record parseEmail returns and of every page of
\* the store is one of Applied, Interview, Offer, OfferRejected, Rejected.
C16_StatusEnum ==
  LET enum == {S_Applied, S_Interview, S_Offer, S_Rejected,
               <<"O", "f", "f", "e", "r", "R", "e", "j", "e", "c", "t", "e", "d">>}
  IN /\ \A s \in Slots :
          pc[s] \in {"query", "linkQuery", "write"} => parsedData[s].status \in enum
     /\ \A p \in 1..Len(pages) : pages[p].Status \in enum

\* C17: every record parseEmail returns has a value for company, role,
\* status and platform.
C17_NeverPartial ==
  \A s \in Slots :
    pc[s] \in {"query", "linkQuery", "write"}
    => /\ parsedData[s].company # Empty
       /\ parsedData[s].role # Empty
       /\ parsedData[s].status # Empty
       /\ parsedData[s].platform # Empty

\* C18: when the sender has the form "Name <addr>" and the name holds no
\* generic-sender marker, the company the extractor returns is that name.
C18_DisplayNameWins ==
  \A s \in Slots :
    pc[s] = "classify"
    => LET from == Emails[email[s]].from
           lt == {i \in 1..Len(from) : from[i] = "<"}
           name == IF lt = {} THEN Empty ELSE trim(SubSeq(from, 1, Min(lt) - 1))
       IN (name # Empty /\ ~isGenericSender(name)) => regexResult[s].company = name

\* C19: for a message whose sender, subject and body are empty the extractor
\* returns company Unknown, role Not specified, status Applied and platform
\* Direct, with isJobRelated undefined and no confidence.
C19_Defaulting ==
  \A s \in Slots :
    (/\ pc[s] = "classify"
     /\ Emails[email[s]].from = Empty
     /\ Emails[email[s]].subject = Empty
     /\ Emails[email[s]].body = Empty)
    => /\ regexResult[s].company = S_Unknown
       /\ regexResult[s].role = S_NotSpecified
       /\ regexResult[s].status = S_Applied
       /\ regexResult[s].platform = S_Direct
       /\ regexResult[s].isJobRelated = JsUndefined
       /\ regexResult[s].confidence = NoNumber

C19_Witness ==
  \E s \in Slots :
    /\ pc[s] = "classify"
    /\ Emails[email[s]].from = Empty
    /\ Emails[email[s]].subject = Empty
    /\ Emails[email[s]].body = Empty
    /\ regexResult[s].company = S_Unknown
    /\ regexResult[s].platform = S_Direct

\* C20: retry budget. A process-email job is attempted at most Attempts
\* times; after its first failing attempt it waits to be attempted once
\* more, and after its second failing attempt it is failed, which no step
\* of the worker takes up again.
C20_RetryBudget ==
  LET all == BagToSet(jobs) \cup {job[s] : s \in Slots}
  IN \A jb \in all :
       jb.name = "process-email"
       => /\ jb.attemptsMade <= Attempts
          /\ (jb.state = "waiting" /\ jb.failedReason # "none") => jb.attemptsMade = 1
          /\ jb.state = "failed" => jb.attemptsMade = Attempts
          /\ (jb.state = "active" /\ jb.failedReason # "none") => jb.attemptsMade = Attempts

C20_Witness ==
  \E jb \in BagToSet(jobs) :
    /\ jb.name = "process-email"
    /\ jb.state = "failed"
    /\ jb.attemptsMade = Attempts
    /\ jb.failedReason # "none"
    /\ faults = MaxRetryFaults
    /\ ncalls = Attempts

\* C23: status category order. The status the extractor returns is that of
\* the first category, in the order applied, interview, offer, rejected, one
\* of whose keywords occurs in the lower-cased subject and body; without a
\* hit it is Applied.
C23_StatusCategoryOrder ==
  \A s \in Slots :
    pc[s] = "classify"
    => LET lower == toLowerCase(Emails[email[s]].subject \o <<" ">> \o Emails[email[s]].body)
           order == <<"applied", "interview", "offer", "rejected">>
           hit(c) == \E k \in 1..Len(Keywords(c)) : includes(lower, toLowerCase(Keywords(c)[k]))
       IN IF \A i \in 1..4 : ~hit(order[i])
          THEN regexResult[s].status = S_Applied
          ELSE \E i \in 1..4 :
                 /\ hit(order[i])
                 /\ \A j \in 1..(i - 1) : ~hit(order[j])
                 /\ regexResult[s].status = capitalize(CategoryName(order[i]))

C23_Witness ==
  \E s \in Slots :
    /\ pc[s] = "classify"
    /\ Emails[email[s]].subject = S_InterviewOffer
    /\ includes(toLowerCase(S_InterviewOffer), <<"o", "f", "f", "e", "r", " ", "l", "e", "t", "t", "e", "r">>)
    /\ regexResult[s].status = S_Interview

\* C26: a record parseEmail returns has a confidence only when the
\* classifier's object passed the gate with isJobRelated true, and then the
\* value lies in [0,1] (0..100 in hundredths); otherwise it has none.
C26_ConfidenceOnlyFromClassifier ==
  \A s \in Slots :
    pc[s] = "query"
    => LET response == Responses[text[s]]
           accepted == /\ response.kind = "text"
                       /\ response.json = "object"
                       /\ response.obj.isJobRelated = JsTrue
                       /\ response.obj.confidence > ConfidenceGate
       IN IF parsedData[s].confidence # NoNumber
          THEN accepted /\ parsedData[s].confidence \in 0..100
          ELSE ~accepted

\* C27: the applicationDate of the extractor's output is the date of the
\* first date pattern whose match in the body is a valid date not later than
\* now, and the date of the message when there is none.
C27_ApplicationDateFromBody ==
  \A s \in Slots :
    pc[s] = "classify"
    => regexResult[s].applicationDate
         = extractApplicationDate(Emails[email[s]].dateCaps, Emails[email[s]].date)

\* C24: a message is skipped only on an explicit veto. Whatever the
\* classifier answers, a record whose isJobRelated is true or unknown is not
\* skipped and goes on to the lookup of the store; no process-email job and
\* no item of a batch ends as skipped for such a record.
C24_SkippedOnlyOnVeto ==
  /\ \A s \in Slots :
       pc[s] = "classify"
       => \A r \in Replies :
            LET parsed == parseEmailMerge(Emails[email[s]], regexResult[s], Responses[r])
            IN (parsed.result = "value" /\ parsed.value.isJobRelated \in {JsTrue, JsUndefined})
               => ~isSkipped(parsed.value)
  /\ \A s \in Slots :
       pc[s] \in {"query", "linkQuery", "write"} => ~isSkipped(parsedData[s])
  /\ \A jb \in BagToSet(jobs) :
       jb.state = "completed" => jb.result.type # "skipped" /\ jb.result.skipped = 0

C24_Witness ==
  \E s \in Slots :
    /\ pc[s] = "query"
    /\ Responses[text[s]].kind = "throw"
    /\ parsedData[s].isJobRelated = JsUndefined
    /\ \E jb \in BagToSet(jobs) : jb.state = "completed" /\ jb.result.type = "success"

\* C30: the priority of every job queued in bulk is a non-negative integer.
C30_BulkPrioritiesValid ==
  \A jb \in BagToSet(jobs) \cup {job[s] : s \in Slots} : jb.priority \in Nat

\* C29: in the summary of every batch that syncEmails returned, processed +
\* skipped + errors equals totalEmails, also when a progress update of the
\* queue was rejected.
C29_SummaryAccounting ==
  \A jb \in BagToSet(jobs) :
    (jb.name = "sync-emails" /\ jb.state = "completed") =>
      jb.result.processed + jb.result.skipped + jb.result.errors
        = jb.result.totalEmails

\* C22: a batch in which a message was processed successfully does not end
\* by syncEmails throwing, whatever fails afterwards.
C22_NoThrowAfterSuccess ==
  \A jb \in BagToSet(jobs) :
    (jb.name = "sync-emails" /\ jb.state \in {"waiting", "failed"}
       /\ jb.failedReason # "none") =>
      \A k \in 1..Len(jb.items) : jb.items[k] # "success"

\* C28: the progress update processEmail issues after the classification
\* of a message (line 69) is recorded on the job the worker is processing
\* in that slot: this.currentJob is that job when the update is issued.
C28_ProgressOnIssuingJob ==
  [][\A s \in Slots :
       (pc[s] = "classify" /\ pc'[s] = "query") => currentJob = s]_vars

\* C21: when the process exits on a shutdown signal no job is in flight:
\* every job the worker had taken has run to its terminal outcome.
C21_ExitWithNoJobInFlight ==
  \A s \in Slots : pc[s] = "exited" => job[s] = NoJob

====
